---- MODULE Spec2Model ----
(***************************************************************************)
(* A model of xobjects/context/context_pyopencl.py: the PyOpenCL compute   *)
(* context (ContextPyopencl), its device buffer (BufferPyopencl), kernel   *)
(* bindings (KernelPyopencl) and FFT plans (FFTPyopencl).                  *)
(*                                                                         *)
(* The device is modelled as a set of memory objects (mem) and one         *)
(* in-order command queue (queue).  A non-blocking enqueue appends a       *)
(* command; the device executes the head of the queue (DeviceStep); a      *)
(* blocking call returns only once every command up to its own has been    *)
(* executed.                                                               *)
(***************************************************************************)
EXTENDS Integers, Sequences, FiniteSets, TLC

(* ------------------------------ bounds -------------------------------- *)
MaxCap == 2       \* largest capacity of the device buffer
MaxNative == 1    \* native buffers returned by copy_native that are kept

\* The operations move bytes and never compute on them, so two byte values
\* are enough to tell any two positions apart.
Bytes == {0, 1}
\* Offsets and sizes reach one past the capacity, and below zero.
Offsets == (0 - 1)..(MaxCap + 1)
Sizes == 0..(MaxCap + 1)
\* Host payloads: every payload that fits some buffer, and one that fits none
\* (a rejected payload's bytes are never looked at).
Payloads == UNION {[1..n -> Bytes] : n \in 0..MaxCap} \cup {[i \in 1..(MaxCap + 1) |-> 0]}

Names == {"a", "b"}          \* kernel names, exposed and native
Descs == {1, 2}              \* kernel-description objects the caller holds
None == "None"
Null == [m |-> 0, off |-> 0]     \* the null device pointer (None, marshaled)
NoCmd == [kind |-> "none"]
NoKernel == [prog |-> 0]
Unknown == 0 - 1
NoPlan == [built |-> FALSE]

NoWrite == [offset |-> 0 - 1, data |-> <<>>]
\* lastWrite in a specification that keeps no history of writes.
NotTracked == [offset |-> 0 - 2, data |-> <<>>]
NoData == <<2>>
\* valid, expected: history, see InRange and Expected below.
\* data: what a read returned; for copy_native, history: the source's content
\* just before the call.
NoResult == [op |-> "none", ok |-> TRUE, err |-> "none", valid |-> TRUE,
             data |-> <<>>, expected |-> NoData]

VARIABLES
    capacity,    \* XBuffer.capacity of the one device buffer under study
    mem,         \* device memory objects; mem[1] is BufferPyopencl.buffer
    queue,       \* ContextPyopencl.queue: commands submitted, not yet executed
    natives,     \* the handles copy_native returned, held by the caller
    result,      \* outcome of the latest host call
    lastWrite,   \* history: the latest successful write not overwritten since
    snaps,       \* history: for natives[i], the offset copied from and what
                 \* read(offset, n) on the source gave when the copy was made
    kernels,     \* ContextPyopencl.kernels: exposed name -> KernelPyopencl or NoKernel
    c_name,      \* the c_name attribute of each kernel-description object
    given,       \* history: c_name as the caller made each description
    nprog,       \* programs built so far by add_kernels
    listed,      \* history: the program of the latest add_kernels call that listed
                 \* each name (0: none yet), or Unknown once such a call raised
    plan,        \* the FFTPyopencl object the caller holds, or NoPlan
    hostpc       \* where the host thread is: "idle", or "wait" inside event.wait()

bufState == <<capacity, natives, lastWrite, snaps>>
kernState == <<kernels, c_name, given, nprog, listed>>
vars == <<capacity, mem, queue, natives, result, lastWrite, snaps, kernels, c_name, given,
          nprog, listed, plan, hostpc>>

(* --------------------------- device commands -------------------------- *)
\* A command of kind "copy": n bytes from mem[src] at soff to mem[dst] at doff.
CopyCmd(src, soff, dst, doff, n) ==
    [kind |-> "copy", id |-> 0, src |-> src, soff |-> soff, dst |-> dst, doff |-> doff,
     n |-> n]

\* The bytes data stored into content at 0-based position offset.
Splice(content, offset, data) ==
    [i \in 1..Len(content) |->
        IF i > offset /\ i <= offset + Len(data) THEN data[i - offset] ELSE content[i]]

\* The n bytes of content from 0-based position offset.
Slice(content, offset, n) == [i \in 1..n |-> content[offset + i]]

\* What the device does to memory when it executes one copy command.
ExecCopy(memv, c) ==
    [memv EXCEPT ![c.dst] = Splice(memv[c.dst], c.doff, Slice(memv[c.src], c.soff, c.n))]

\* A kernel launch stores the mark of its entry point through its pointer
\* argument; through a null pointer its behaviour is undefined: here it either
\* leaves the memory alone or corrupts it.
\* (In the kernel and transform specifications a memory cell holds a pair.)
Word(tag) == <<0, tag>>
Mark(c) == <<c.prog, c.entry>>

ExecKernel(memv, c) ==
    IF c.ptr = Null
    THEN {memv, [memv EXCEPT ![1] = [i \in 1..Len(memv[1]) |-> Word("corrupt")]]}
    ELSE {[memv EXCEPT ![c.ptr.m] = Splice(memv[c.ptr.m], c.ptr.off, <<Mark(c)>>)]}

\* An in-place transform: the array holds the transform of what it held.
ExecFFT(memv, c) ==
    {[memv EXCEPT ![1] = [i \in 1..Len(memv[1]) |->
                                IF c.forward THEN Word("fft") ELSE Word("ifft")]]}

\* The memories the device may leave after executing command c.
Exec(memv, c) ==
    CASE c.kind = "copy" -> {ExecCopy(memv, c)}
      [] c.kind = "kernel" -> ExecKernel(memv, c)
      [] c.kind = "fft" -> ExecFFT(memv, c)

\* Every pending copy executed (the queues drained this way hold copies only).
RECURSIVE DrainCopies(_, _)
DrainCopies(q, memv) ==
    IF q = <<>> THEN memv ELSE DrainCopies(Tail(q), ExecCopy(memv, Head(q)))

(* ------------------ pyopencl.enqueue_copy, by direction ---------------- *)
\* zeroOk: whether the OpenCL driver accepts a transfer of zero bytes (drivers
\* differ: the OpenCL versions before 2.1 reject it with INVALID_VALUE).

\* Host -> device (clEnqueueWriteBuffer, blocking): the transfer size is the
\* length of the host object; a region outside the buffer is rejected.
EnqueueWriteBuffer(memv, q, m, device_offset, data, zeroOk) ==
    IF device_offset < 0
    THEN [ok |-> FALSE, err |-> "negative_offset", mem |-> memv, queue |-> q]
    ELSE IF device_offset + Len(data) > Len(memv[m]) \/ (Len(data) = 0 /\ ~zeroOk)
    THEN [ok |-> FALSE, err |-> "INVALID_VALUE", mem |-> memv, queue |-> q]
    ELSE LET done == DrainCopies(q, memv)
         IN [ok |-> TRUE, err |-> "none",
             mem |-> [done EXCEPT ![m] = Splice(done[m], device_offset, data)],
             queue |-> <<>>]

\* Device -> host (clEnqueueReadBuffer, blocking) into a host object of size bytes.
EnqueueReadBuffer(memv, q, m, device_offset, size, zeroOk) ==
    IF device_offset < 0
    THEN [ok |-> FALSE, err |-> "negative_offset", mem |-> memv, queue |-> q, data |-> <<>>]
    ELSE IF device_offset + size > Len(memv[m]) \/ (size = 0 /\ ~zeroOk)
    THEN [ok |-> FALSE, err |-> "INVALID_VALUE", mem |-> memv, queue |-> q, data |-> <<>>]
    ELSE LET done == DrainCopies(q, memv)
         IN [ok |-> TRUE, err |-> "none", mem |-> done, queue |-> <<>>,
             data |-> Slice(done[m], device_offset, size)]

\* Device -> device (clEnqueueCopyBuffer, not blocking).
EnqueueCopyBuffer(memv, q, dst, src, src_offset, dest_offset, byte_count) ==
    IF src_offset < 0 \/ dest_offset < 0
    THEN [ok |-> FALSE, err |-> "negative_offset", mem |-> memv, queue |-> q]
    ELSE IF src_offset + byte_count > Len(memv[src])
              \/ dest_offset + byte_count > Len(memv[dst])
    THEN [ok |-> FALSE, err |-> "INVALID_VALUE", mem |-> memv, queue |-> q]
    ELSE [ok |-> TRUE, err |-> "none", mem |-> memv,
          queue |-> Append(q, CopyCmd(src, src_offset, dst, dest_offset, byte_count))]

(* ----------------------------- BufferPyopencl -------------------------- *)
\* A write that drops its offset.
write_no_offset(memv, q, offset, data, zeroOk) ==
    EnqueueWriteBuffer(memv, q, 1, 0, data, zeroOk)

write(memv, q, offset, data, zeroOk) == EnqueueWriteBuffer(memv, q, 1, offset, data, zeroOk)

read(memv, q, offset, size, zeroOk) == EnqueueReadBuffer(memv, q, 1, offset, size, zeroOk)

update_from_buffer(memv, q, offset, source, zeroOk) ==
    EnqueueWriteBuffer(memv, q, 1, offset, source, zeroOk)

to_bytearray(memv, q, offset, nbytes, zeroOk) ==
    EnqueueReadBuffer(memv, q, 1, offset, nbytes, zeroOk)

NoBuff == [m |-> 0, off |-> 0, n |-> 0]

\* A view of the source's own memory instead of a fresh buffer (as to_pointer_arg gives).
copy_native_view(memv, q, offset, nbytes, fresh) ==
    IF nbytes = 0
    THEN [ok |-> FALSE, err |-> "INVALID_BUFFER_SIZE", mem |-> memv, queue |-> q,
          buff |-> NoBuff]
    ELSE IF offset < 0 \/ offset + nbytes > Len(memv[1])
    THEN [ok |-> FALSE, err |-> "INVALID_VALUE", mem |-> memv, queue |-> q, buff |-> NoBuff]
    ELSE [ok |-> TRUE, err |-> "none", mem |-> memv, queue |-> q,
          buff |-> [m |-> 1, off |-> offset, n |-> nbytes]]

\* fresh: the undefined content of the newly created cl.Buffer.  Creating a
\* buffer of zero bytes is rejected by clCreateBuffer.
copy_native(memv, q, offset, nbytes, fresh) ==
    IF nbytes = 0
    THEN [ok |-> FALSE, err |-> "INVALID_BUFFER_SIZE", mem |-> memv, queue |-> q,
          buff |-> NoBuff]
    ELSE LET withNew == Append(memv, fresh)
             new == Len(withNew)
             r == EnqueueCopyBuffer(withNew, q, new, 1, offset, 0, nbytes)
         IN IF r.ok
            THEN [ok |-> TRUE, err |-> "none", mem |-> r.mem, queue |-> r.queue,
                  buff |-> [m |-> new, off |-> 0, n |-> nbytes]]
            ELSE [ok |-> FALSE, err |-> r.err, mem |-> memv, queue |-> q, buff |-> NoBuff]

(* ------------------------------ observation ---------------------------- *)
\* Memory as any later command or blocking read sees it: the pending commands applied.
Settled == DrainCopies(queue, mem)

HandleContent(memv, h) == Slice(memv[h.m], h.off, h.n)

\* The bound on (offset, nbytes) pairs of a buffer of the given capacity.
InRange(offset, nbytes, cap) == 0 <= offset /\ offset + nbytes <= cap

Overlaps(o1, n1, o2, n2) == o1 < o2 + n2 /\ o2 < o1 + n1

\* lastWrite after a successful store of n bytes at offset by something other than write.
Forget(offset, n) ==
    IF lastWrite \notin {NoWrite, NotTracked} /\ Overlaps(lastWrite.offset, Len(lastWrite.data), offset, n)
    THEN NoWrite ELSE lastWrite

\* The payload of the latest write when it went to exactly (offset, size) and
\* nothing was stored into that range since.
Expected(offset, size) ==
    IF lastWrite \notin {NoWrite, NotTracked} /\ lastWrite.offset = offset /\ Len(lastWrite.data) = size
    THEN lastWrite.data ELSE NoData

(* -------------------------------- Init --------------------------------- *)
\* A buffer fresh from _new_buffer: its content is whatever the device holds.
InitDevice ==
    /\ capacity \in 1..MaxCap
    /\ \E c \in [1..capacity -> Bytes] : mem = <<c>>
    /\ queue = <<>>
    /\ natives = <<>>
    /\ result = NoResult
    /\ snaps = <<>>
    /\ kernels = [n \in Names |-> NoKernel]
    /\ c_name = [d \in Descs |-> None]
    /\ given = c_name
    /\ nprog = 0
    /\ listed = [n \in Names |-> 0]
    /\ plan = NoPlan
    /\ hostpc = "idle"

InitBuf == InitDevice /\ lastWrite = NoWrite

InitCopy == InitDevice /\ lastWrite = NotTracked

(* ------------------------------- actions ------------------------------- *)
\* The driver's answer matters for a transfer of zero bytes only.
DriverChoices(n) == IF n = 0 THEN BOOLEAN ELSE {TRUE}

\* The undefined content of a new buffer of n bytes (one choice where the
\* creation or the copy is rejected anyway and the content is never seen).
FreshContents(n) ==
    IF n <= MaxCap THEN [1..n -> Bytes] ELSE {[i \in 1..n |-> 0]}

Outcome(op, r, offset, nbytes, data, expected) ==
    [op |-> op, ok |-> r.ok, err |-> r.err, valid |-> InRange(offset, nbytes, capacity),
     data |-> data, expected |-> expected]

Write ==
    \E offset \in Offsets, data \in Payloads :
      \E zeroOk \in DriverChoices(Len(data)) :
        LET r == write(mem, queue, offset, data, zeroOk)
        IN /\ mem' = r.mem
           /\ queue' = r.queue
           /\ result' = Outcome("write", r, offset, Len(data), <<>>, NoData)
           /\ lastWrite' = IF r.ok /\ Len(data) > 0 /\ lastWrite # NotTracked
                           THEN [offset |-> offset, data |-> data]
                           ELSE lastWrite
           /\ UNCHANGED <<capacity, natives, snaps, kernState, plan, hostpc>>

Read ==
    \E offset \in Offsets, size \in Sizes :
      \E zeroOk \in DriverChoices(size) :
        LET r == read(mem, queue, offset, size, zeroOk)
        IN /\ mem' = r.mem
           /\ queue' = r.queue
           /\ result' = Outcome("read", r, offset, size, r.data, Expected(offset, size))
           /\ UNCHANGED <<bufState, kernState, plan, hostpc>>

UpdateFromBuffer ==
    \E offset \in Offsets, source \in Payloads :
      \E zeroOk \in DriverChoices(Len(source)) :
        LET r == update_from_buffer(mem, queue, offset, source, zeroOk)
        IN /\ mem' = r.mem
           /\ queue' = r.queue
           /\ result' = Outcome("update_from_buffer", r, offset, Len(source), <<>>, NoData)
           /\ lastWrite' = IF r.ok THEN Forget(offset, Len(source)) ELSE lastWrite
           /\ UNCHANGED <<capacity, natives, snaps, kernState, plan, hostpc>>

ToBytearray ==
    \E offset \in Offsets, nbytes \in Sizes :
      \E zeroOk \in DriverChoices(nbytes) :
        LET r == to_bytearray(mem, queue, offset, nbytes, zeroOk)
        IN /\ mem' = r.mem
           /\ queue' = r.queue
           /\ result' = Outcome("to_bytearray", r, offset, nbytes, r.data, NoData)
           /\ UNCHANGED <<bufState, kernState, plan, hostpc>>

CopyNative ==
    \E offset \in Offsets, nbytes \in Sizes :
      \E fresh \in FreshContents(nbytes) :
        LET r == copy_native(mem, queue, offset, nbytes, fresh)
            before == Settled[1]
        IN /\ Len(natives) < MaxNative
           /\ mem' = r.mem
           /\ queue' = r.queue
           /\ result' = Outcome("copy_native", r, offset, nbytes, before, NoData)
           /\ natives' = IF r.ok THEN Append(natives, r.buff) ELSE natives
           /\ snaps' = IF r.ok
                       THEN Append(snaps, [offset |-> offset,
                                           data |-> Slice(before, offset, nbytes)])
                       ELSE snaps
           /\ UNCHANGED <<capacity, lastWrite, kernState, plan, hostpc>>

\* The device executes the oldest pending command (the queue is in order).
DeviceStep ==
    /\ queue # <<>>
    /\ mem' \in Exec(mem, Head(queue))
    /\ queue' = Tail(queue)
    /\ UNCHANGED <<bufState, result, kernState, plan, hostpc>>

NextBuf ==
    \/ Write
    \/ Read
    \/ UpdateFromBuffer
    \/ ToBytearray
    \/ CopyNative
    \/ DeviceStep

SpecBuf == InitBuf /\ [][NextBuf]_vars

\* The host transfers of one buffer alone.
NextRW ==
    \/ Write
    \/ Read
    \/ UpdateFromBuffer
    \/ ToBytearray

SpecRW == InitBuf /\ [][NextRW]_vars

\* Native copies of a buffer that is being written to.
NextCopy ==
    \/ Write
    \/ UpdateFromBuffer
    \/ CopyNative
    \/ DeviceStep

SpecCopy == InitCopy /\ [][NextCopy]_vars

(* ============================ kernel bindings ========================== *)
MaxProg == 2      \* add_kernels calls that build a program

\* The declared arguments of every description: a pointer to numeric scalars
\* and a numeric scalar; n_threads names the scalar.
DescArgs ==
    << [name |-> "out", pointer |-> TRUE, atype |-> "numeric"],
       [name |-> "n", pointer |-> FALSE, atype |-> "numeric"] >>

n_threads == "n"

\* What a caller may supply under each keyword: a device array (cla.Array), a
\* host numpy array, an xobject array (_shape, no dtype), a plain Python object.
ValueKinds(k) ==
    IF k = "out" THEN {"devarray", "hostarray", "xarray", "plain"} ELSE {"plain"}

KwNames == {"out", "n", "extra"}
Kwargs == UNION {{kw \in [K -> {"devarray", "hostarray", "xarray", "plain"}] :
                    \A k \in K : kw[k] \in ValueKinds(k)} : K \in SUBSET KwNames}

HasDtype(value) == value \in {"devarray", "hostarray"}
HasShape(value) == value = "xarray"
IsClaArray(value) == value = "devarray"

Returned(v) == [raised |-> FALSE, err |-> "none", val |-> v]
Raised(e) == [raised |-> TRUE, err |-> e, val |-> Null]

\* A binding that does not wait.
DefaultWaitOff == FALSE

\* KernelPyopencl.__init__ as add_kernels calls it: wait_on_call keeps its default.
DefaultWait == TRUE

KernelPyopencl(function, description) ==
    [prog |-> function.prog, entry |-> function.entry, description |-> description,
     wait_on_call |-> DefaultWait]

\* KernelPyopencl.to_function_arg.  A device array sits at offset 0 of mem[1].
to_function_arg(arg, value) ==
    IF arg.pointer
    THEN IF arg.atype = "numeric"
         THEN IF HasDtype(value)
              THEN IF IsClaArray(value)
                   THEN Returned([m |-> 1, off |-> 0])
                   ELSE Raised("AssertionError_isinstance")
              ELSE IF HasShape(value)
              THEN Raised("NotImplementedError")
              ELSE Returned(Null)            \* falls off the end: returns None
         ELSE Raised("ValueError")
    ELSE IF arg.atype = "numeric"
         THEN Returned("scalar")
         ELSE IF arg.atype = "compound"
         THEN Raised("NotImplementedError")
         ELSE Raised("ValueError")

\* The marshaling loop of __call__ over the declared arguments from position i:
\* the arguments marshaled so far, and the exception that stopped it, if any.
RECURSIVE Marshal(_, _, _)
Marshal(kwargs, i, arg_list) ==
    IF i > Len(DescArgs)
    THEN [err |-> "none", arg_list |-> arg_list]
    ELSE IF DescArgs[i].name \notin DOMAIN kwargs
    THEN [err |-> "KeyError", arg_list |-> arg_list]
    ELSE LET r == to_function_arg(DescArgs[i], kwargs[DescArgs[i].name])
         IN IF r.raised
            THEN [err |-> r.err, arg_list |-> arg_list]
            ELSE Marshal(kwargs, i + 1, Append(arg_list, r.val))

\* The argument check that opens __call__.
CountCheck(kwargs) == Cardinality(DOMAIN kwargs) = Len(DescArgs)

\* __call__ up to the submission: the exception raised, or the launch command.
Prepare(k, kwargs, id) ==
    IF ~CountCheck(kwargs)
    THEN [err |-> "AssertionError_count", marshaled |-> 0, cmd |-> NoCmd]
    ELSE LET m == Marshal(kwargs, 1, <<>>)
         IN IF m.err # "none"
            THEN [err |-> m.err, marshaled |-> Len(m.arg_list), cmd |-> NoCmd]
            ELSE IF n_threads \notin DOMAIN kwargs
            THEN [err |-> "KeyError", marshaled |-> Len(m.arg_list), cmd |-> NoCmd]
            ELSE [err |-> "none", marshaled |-> Len(m.arg_list),
                  cmd |-> [kind |-> "kernel", id |-> id, prog |-> k.prog,
                           entry |-> k.entry, ptr |-> m.arg_list[1]]]

RECURSIVE Bind(_, _, _, _, _)
\* A loop that leaves a name alone once it is bound.
BindKeepFirst(items, prog, entries, ks, cn) ==
    IF items = <<>>
    THEN [ok |-> TRUE, kernels |-> ks, c_name |-> cn]
    ELSE LET pyname == Head(items).pyname
             d == Head(items).kernel
             cn1 == IF cn[d] = None THEN [cn EXCEPT ![d] = pyname] ELSE cn
         IN IF cn1[d] \notin entries
            THEN [ok |-> FALSE, kernels |-> ks, c_name |-> cn1]
            ELSE Bind(Tail(items), prog, entries,
                      IF ks[pyname] = NoKernel
                      THEN [ks EXCEPT ![pyname] =
                               KernelPyopencl([prog |-> prog, entry |-> cn1[d]], d)]
                      ELSE ks,
                      cn1)

\* One entry of the loop of add_kernels over kernels.items(), then the rest.
Bind(items, prog, entries, ks, cn) ==
    IF items = <<>>
    THEN [ok |-> TRUE, kernels |-> ks, c_name |-> cn]
    ELSE LET pyname == Head(items).pyname
             d == Head(items).kernel
             cn1 == IF cn[d] = None THEN [cn EXCEPT ![d] = pyname] ELSE cn
         IN IF cn1[d] \notin entries         \* getattr(prg, ...) raises
            THEN [ok |-> FALSE, kernels |-> ks, c_name |-> cn1]
            ELSE Bind(Tail(items), prog, entries,
                      [ks EXCEPT ![pyname] =
                          KernelPyopencl([prog |-> prog, entry |-> cn1[d]], d)],
                      cn1)

\* The kernels mappings a caller may pass: one or two entries under distinct names.
KernelDicts ==
    {<<[pyname |-> n, kernel |-> d]>> : n \in Names, d \in Descs}
    \cup {items \in {<<[pyname |-> n1, kernel |-> d1], [pyname |-> n2, kernel |-> d2]>> :
                        n1 \in Names, n2 \in Names, d1 \in Descs, d2 \in Descs} :
            items[1].pyname # items[2].pyname}

ItemNames(items) == {items[i].pyname : i \in 1..Len(items)}

KernResult(op, name, err) ==
    [op |-> op, name |-> name, err |-> err, marshaled |-> 0, submitted |-> FALSE,
     id |-> 0, prog |-> 0, entry |-> None, ptr |-> Null, kwargs |-> <<>>,
     returned |-> TRUE]

\* No kernel is bound yet.  Description 1 comes without a native name;
\* description 2 comes with any, or with none.
InitKern ==
    /\ capacity = 1
    /\ mem = <<<<Word("initial")>>>>
    /\ queue = <<>>
    /\ natives = <<>>
    /\ result = KernResult("none", None, "none")
    /\ lastWrite = NotTracked
    /\ snaps = <<>>
    /\ kernels = [n \in Names |-> NoKernel]
    /\ c_name \in {cn \in [Descs -> Names \cup {None}] : cn[1] = None}
    /\ given = c_name
    /\ nprog = 0
    /\ listed = [n \in Names |-> 0]
    /\ plan = NoPlan
    /\ hostpc = "idle"

\* add_kernels(sources, kernels): builds : whether the source compiles;
\* entries : the kernels the source defines.
AddKernels ==
    \E items \in KernelDicts, entries \in (SUBSET Names) \ {{}}, builds \in BOOLEAN :
        /\ hostpc = "idle"
        /\ nprog < MaxProg
        /\ UNCHANGED <<mem, queue, bufState, given, plan, hostpc>>
        /\ IF ~builds
           THEN /\ result' = KernResult("add_kernels", None, "CompilationError")
                /\ UNCHANGED <<kernels, c_name, nprog, listed>>
           ELSE LET r == Bind(items, nprog + 1, entries, kernels, c_name)
                IN /\ nprog' = nprog + 1
                   /\ kernels' = r.kernels
                   /\ c_name' = r.c_name
                   /\ result' = KernResult("add_kernels", None,
                                           IF r.ok THEN "none" ELSE "AttributeError")
                   /\ listed' = [n \in Names |->
                                    IF n \notin ItemNames(items) THEN listed[n]
                                    ELSE IF r.ok THEN nprog + 1 ELSE Unknown]

\* The event of the next launch: a name no pending command bears.
NewId ==
    CHOOSE i \in 1..(Len(queue) + 1) :
        /\ \A j \in 1..Len(queue) : queue[j].id # i
        /\ \A h \in 1..(i - 1) : \E j \in 1..Len(queue) : queue[j].id = h

\* context.kernels[name](**kwargs): __call__ up to event.wait().
Call ==
    \E name \in Names, kwargs \in Kwargs :
        LET k == kernels[name]
            p == Prepare(k, kwargs, NewId)
            sent == p.err = "none"
        IN /\ hostpc = "idle"
           /\ k # NoKernel
           /\ queue' = IF sent THEN Append(queue, p.cmd) ELSE queue
           /\ hostpc' = IF sent /\ k.wait_on_call THEN "wait" ELSE "idle"
           /\ result' = [op |-> "call", name |-> name, err |-> p.err,
                         marshaled |-> p.marshaled, submitted |-> sent,
                         id |-> IF sent THEN NewId ELSE 0,
                         prog |-> IF sent THEN p.cmd.prog ELSE 0,
                         entry |-> IF sent THEN p.cmd.entry ELSE None,
                         ptr |-> IF sent THEN p.cmd.ptr ELSE Null,
                         kwargs |-> kwargs,
                         returned |-> ~(sent /\ k.wait_on_call)]
           /\ UNCHANGED <<mem, bufState, kernState, plan>>

Pending(id) == \E i \in 1..Len(queue) : queue[i].id = id

\* event.wait() returns once the device has executed the launch.
WaitReturn ==
    /\ hostpc = "wait"
    /\ ~Pending(result.id)
    /\ hostpc' = "idle"
    /\ result' = [result EXCEPT !.returned = TRUE]
    /\ UNCHANGED <<mem, queue, bufState, kernState, plan>>

NextKern ==
    \/ AddKernels
    \/ Call
    \/ WaitReturn
    \/ DeviceStep

SpecKern == InitKern /\ [][NextKern]_vars

(* ============================== FFT plans ============================== *)
MaxDims == 2      \* dimensions of the array a plan is made for
MaxPending == 3   \* transforms submitted and not yet executed

\* Extents of an axis: powers of two, others, an empty axis, and 2^28 + 1.
Extents == {0, 1, 3, 4, 6, 8, 2^28 + 1}
Shapes == UNION {[1..n -> Extents] : n \in 1..MaxDims}
AxesChoices == UNION {[1..n -> 0..MaxDims] : n \in 1..2}

SeqMax(sq) == CHOOSE x \in {sq[i] : i \in 1..Len(sq)} : \A j \in 1..Len(sq) : sq[j] <= x

RECURSIVE Log2Floor(_)
Log2Floor(n) == IF n < 2 THEN 0 ELSE 1 + Log2Floor(n \div 2)

\* frac_part, _ = np.modf(np.log(nn) / np.log(2)); np.isclose(frac_part, 0).
\* isclose accepts |frac_part| <= 1e-8.  For nn = 0 the logarithm is -inf and
\* its fractional part -0.0.  For nn >= 1 with k = floor(log2(nn)) and
\* r = nn - 2^k, frac_part = log2(1 + r / 2^k), which is at most 1e-8 exactly
\* when r * 144269504 <= 2^k to the precision of the extents used here
\* (1 / (1e-8 * ln 2) = 144269504.1); r is capped to keep the product in range.
FracPartIsClose(nn) ==
    IF nn = 0
    THEN TRUE
    ELSE LET k == Log2Floor(nn)
             r == nn - 2^k
         IN r = 0 \/ (r <= 14 /\ r * 144269504 <= 2^k)

\* FFTPyopencl.__init__: the exception raised, or "none" when gpyfft.fft.FFT
\* is reached.
FFTInit(shape, axes) ==
    IF ~(Len(shape) > SeqMax(axes))
    THEN "AssertionError_axes"
    ELSE IF \E i \in 1..(Len(axes) - 1) : ~FracPartIsClose(shape[axes[i] + 1])
    THEN "AssertionError_pow2"
    ELSE "none"

FFTResult(op, err) ==
    [op |-> op, err |-> err, shape |-> <<>>, axes |-> <<>>, built |-> FALSE, id |-> 0,
     returned |-> TRUE]

\* No plan yet.
InitPlan ==
    /\ capacity = 1
    /\ mem = <<<<Word("initial")>>>>
    /\ queue = <<>>
    /\ natives = <<>>
    /\ result = FFTResult("none", "none")
    /\ lastWrite = NotTracked
    /\ snaps = <<>>
    /\ kernels = [n \in Names |-> NoKernel]
    /\ c_name = [d \in Descs |-> None]
    /\ given = c_name
    /\ nprog = 0
    /\ listed = [n \in Names |-> 0]
    /\ plan = NoPlan
    /\ hostpc = "idle"

\* context.plan_FFT(data, axes, wait_on_call) for data of the given shape.
PlanFFT ==
    \E shape \in Shapes, axes \in AxesChoices, wait_on_call \in BOOLEAN :
        LET err == FFTInit(shape, axes)
        IN /\ hostpc = "idle"
           /\ result' = [FFTResult("plan_FFT", err) EXCEPT !.shape = shape, !.axes = axes,
                                                           !.built = (err = "none")]
           /\ plan' = IF err = "none"
                      THEN [built |-> TRUE, wait_on_call |-> wait_on_call]
                      ELSE plan
           /\ UNCHANGED <<mem, queue, bufState, kernState, hostpc>>

\* transform / itransform, up to event.wait().
Enqueue(op, forward) ==
    /\ hostpc = "idle"
    /\ plan # NoPlan
    /\ Len(queue) < MaxPending
    /\ queue' = Append(queue, [kind |-> "fft", id |-> NewId, forward |-> forward])
    /\ hostpc' = IF plan.wait_on_call THEN "wait" ELSE "idle"
    /\ result' = [FFTResult(op, "none") EXCEPT !.id = NewId,
                                               !.returned = ~plan.wait_on_call]
    /\ UNCHANGED <<mem, bufState, kernState, plan>>

Transform == Enqueue("transform", TRUE)

ITransform == Enqueue("itransform", FALSE)

\* ContextPyopencl.synchronize: pass.
Synchronize ==
    /\ hostpc = "idle"
    /\ result' = FFTResult("synchronize", "none")
    /\ UNCHANGED <<mem, queue, bufState, kernState, plan, hostpc>>

\* The construction of plans.
SpecPlan == InitPlan /\ [][PlanFFT]_vars

\* A plan fresh from plan_FFT, under either wait policy.
InitFFT ==
    /\ capacity = 1
    /\ mem = <<<<Word("initial")>>>>
    /\ queue = <<>>
    /\ natives = <<>>
    /\ \E w \in BOOLEAN :
          /\ plan = [built |-> TRUE, wait_on_call |-> w]
          /\ result = [FFTResult("plan_FFT", "none") EXCEPT !.shape = <<8, 4>>,
                                                             !.axes = <<0, 1>>,
                                                             !.built = TRUE]
    /\ lastWrite = NotTracked
    /\ snaps = <<>>
    /\ kernels = [n \in Names |-> NoKernel]
    /\ c_name = [d \in Descs |-> None]
    /\ given = c_name
    /\ nprog = 0
    /\ listed = [n \in Names |-> 0]
    /\ hostpc = "idle"

\* The life of a plan.
NextFFT ==
    \/ Transform
    \/ ITransform
    \/ Synchronize
    \/ WaitReturn
    \/ DeviceStep

SpecFFT == InitFFT /\ [][NextFFT]_vars

(* ------------------------- claims on the buffer ------------------------ *)
\* C1: a read(offset, size) that succeeds after write(offset, payload) with
\* size = len(payload), nothing having been stored into that range in between,
\* returns exactly the bytes of payload (and so len(payload) bytes).
C1_RoundTrip ==
    (result.op = "read" /\ result.ok /\ result.expected # NoData)
        => result.data = result.expected

\* C1 witness: a read returned the payload of a write made at a non-zero offset.
C1_Witness ==
    /\ result.op = "read" /\ result.ok /\ result.expected # NoData
    /\ lastWrite.offset = 1 /\ Len(result.data) = 1 /\ capacity = 2

RangeOps == {"write", "read", "update_from_buffer", "to_bytearray", "copy_native"}

\* What the backend raises for a range outside the buffer.
RangeErrors == {"INVALID_VALUE", "negative_offset"}

\* C2: every buffer operation taking (offset, nbytes) succeeds when
\* 0 <= offset and offset + nbytes <= capacity, and fails with a range error
\* for any pair that violates the bound.
C2_RangeChecked ==
    result.op \in RangeOps =>
        IF result.valid THEN result.ok ELSE ~result.ok /\ result.err \in RangeErrors

\* C3: each buffer copy_native returned is a new memory object of n bytes
\* whose content is what read(offset, n) gave on the source when the copy was
\* made, whatever has been written into the source since; and the copy left
\* the source as it was.  (Content is as later commands and reads see it.)
C3_CopyIndependent ==
    /\ \A i \in 1..Len(natives) :
          /\ natives[i].m # 1
          /\ \A j \in 1..Len(natives) : natives[j].m = natives[i].m => j = i
          /\ natives[i].off = 0
          /\ Len(Settled[natives[i].m]) = Len(snaps[i].data)
          /\ HandleContent(Settled, natives[i]) = snaps[i].data
    /\ (result.op = "copy_native" /\ result.ok) => Settled[1] = result.data

\* C3 witness: the source was written after a copy was made, and the copied
\* range of the source now differs from the copy.
C3_Witness ==
    /\ result.op \in {"write", "update_from_buffer"} /\ result.ok
    /\ \E i \in 1..Len(natives) :
          Slice(Settled[1], snaps[i].offset, natives[i].n) # snaps[i].data

(* -------------------- claims on kernels and FFT plans ------------------ *)
Declared == {DescArgs[i].name : i \in 1..Len(DescArgs)}

\* The exception of the argument-count check (the assert that opens __call__).
ArgumentCountError == "AssertionError_count"

\* C4: a call whose argument names miss one declared name, or hold one name
\* that is not declared, fails with the argument-count error before anything
\* is marshaled, and submits no launch.
C4_NamesChecked ==
    (/\ result.op = "call"
     /\ \/ Cardinality(Declared \ DOMAIN result.kwargs) = 1
        \/ Cardinality(DOMAIN result.kwargs \ Declared) = 1)
        => /\ result.err = ArgumentCountError
           /\ result.marshaled = 0
           /\ ~result.submitted

\* C5: the binding under each name comes from the program of the latest
\* add_kernels call that listed the name (none when no call did), a call
\* made under the name launches the kernel of that program, and the mark the
\* launch leaves in its output is that program's.
C5_LatestBinding ==
    /\ \A n \in Names :
          listed[n] # Unknown =>
              IF listed[n] = 0 THEN kernels[n] = NoKernel
              ELSE kernels[n] # NoKernel /\ kernels[n].prog = listed[n]
    /\ (result.op = "call" /\ result.submitted /\ listed[result.name] # Unknown) =>
          /\ result.prog = listed[result.name]
          /\ (result.returned /\ result.ptr # Null) =>
                mem[1][1] = <<listed[result.name], result.entry>>

\* C5 witness: "a" was listed by the first and by the second call, "b" by the
\* first only, and a launch under "a" has run.
C5_Witness ==
    /\ listed["a"] = 2 /\ listed["b"] = 1
    /\ kernels["b"].prog = 1
    /\ result.op = "call" /\ result.name = "a" /\ result.submitted /\ result.returned
    /\ result.ptr # Null

\* C6: when a kernel call made through a binding of add_kernels (wait-on-call,
\* the default) has returned, the device has executed the launch: it is no
\* longer pending, and the output holds the mark the kernel stores.
C6_WaitOnCall ==
    (result.op = "call" /\ result.submitted /\ result.returned) =>
        /\ ~Pending(result.id)
        /\ result.ptr # Null => mem[result.ptr.m][result.ptr.off + 1]
                                    = <<result.prog, result.entry>>

\* C6 witness: a launch with a device array as output has returned.
C6_Witness ==
    /\ result.op = "call" /\ result.submitted /\ result.returned
    /\ result.ptr # Null
    /\ kernels[result.name].wait_on_call

\* C7: when synchronize() has returned, nothing submitted before it is pending.
C7_SynchronizeDrains == result.op = "synchronize" => queue = <<>>

IsPowerOfTwo(n) == \E k \in 0..30 : n = 2^k

\* The exceptions of the two checks of FFTPyopencl.__init__.
ShapeErrors == {"AssertionError_axes", "AssertionError_pow2"}

\* C8: making a plan fails with the shape error, the native plan not built,
\* whenever len(shape) <= max(axes) or an axis listed before the last has an
\* extent that is no power of two; otherwise it succeeds and builds the plan.
C8_ShapeChecked ==
    result.op = "plan_FFT" =>
        LET shape == result.shape
            axes == result.axes
            bad == \/ Len(shape) <= SeqMax(axes)
                   \/ \E i \in 1..(Len(axes) - 1) : ~IsPowerOfTwo(shape[axes[i] + 1])
        IN IF bad THEN result.err \in ShapeErrors /\ ~result.built
           ELSE result.err = "none" /\ result.built

\* The exception raised for a value that is no device array.
TypeErrors == {"AssertionError_isinstance"}

\* C9: with every declared argument supplied, the pointer argument is
\* marshaled to the array's buffer at its offset when the value is a device
\* array; a host array or a plain object fails with the type error; and no
\* launch is submitted for any value that is not a device array.
C9_PointerArgChecked ==
    (result.op = "call" /\ DOMAIN result.kwargs = Declared) =>
        IF result.kwargs["out"] = "devarray"
        THEN result.submitted /\ result.ptr = [m |-> 1, off |-> 0]
        ELSE /\ ~result.submitted
             /\ result.kwargs["out"] \in {"hostarray", "plain"}
                    => result.err \in TypeErrors

\* C10: a binding made from a description the caller gave no native name
\* resolves to the entry point named like the exposed name.
C10_DefaultNativeName ==
    \A n \in Names :
        (kernels[n] # NoKernel /\ given[kernels[n].description] = None)
            => kernels[n].entry = n

====
